---- MODULE Spec2Model ----
(***************************************************************************)
(* GridBot (src/grid_logic.py): grid composition, level deduplication and  *)
(* the start/stop cycle of one bot against its exchange client.            *)
(*                                                                         *)
(* Prices are Python floats in the source.  Here a price is an exact       *)
(* rational <<n, d>> in lowest terms with d > 0, so that equality of two   *)
(* prices (set(), `in`, ==) is equality of the pairs.  Rounding error of   *)
(* IEEE-754 arithmetic is not modelled.                                    *)
(***************************************************************************)
EXTENDS Integers, Sequences, FiniteSets, TLC

VARIABLES
    lower_price,        \* GridBot.lower_price
    upper_price,        \* GridBot.upper_price
    grid_number,        \* GridBot.grid_number (N)
    grid_type,          \* GridBot.grid_type: "Arithmetic" | "Geometric"
    direction,          \* GridBot.direction: "Neutral" | "Long" | "Short"
    investment_percentage, \* GridBot.investment_percentage
    support_levels,     \* GridBot.support_levels
    resistance_levels,  \* GridBot.resistance_levels
    grid_levels,        \* GridBot.grid_levels
    active_orders,      \* GridBot.active_orders, in insertion order
    venue,              \* ids of the orders resting on the exchange
    next_id,            \* the id the exchange gives the next order it accepts
    submitted,          \* instructions sent by the last create_grid_orders
    free_balance,       \* free balance the last create_grid_orders read
    answers,            \* what create_order did with each instruction sent
    cancels,            \* ids the last stop() asked the exchange to cancel
    analysis,           \* how the last analyze_market ended, and at what price
    cycles,             \* start() calls made so far
    faults,             \* failed exchange responses so far
    arg,                \* the arguments of a function called on its own
    ret                 \* the last call made and what it returned

vars == <<lower_price, upper_price, grid_number, grid_type, direction,
          investment_percentage, support_levels, resistance_levels,
          grid_levels, active_orders, venue, next_id, submitted, free_balance,
          answers, cancels, analysis, cycles, faults, arg, ret>>

configVars == <<lower_price, upper_price, grid_number, grid_type, direction,
                investment_percentage>>

\* the bot's orders, the exchange and the bookkeeping of a start/stop cycle
cycleVars == <<active_orders, venue, next_id, submitted, free_balance, answers,
               cancels,                analysis, cycles, faults>>

-----------------------------------------------------------------------------
(* Rational arithmetic standing for the float arithmetic of the source.    *)

Abs(x) == IF x < 0 THEN -x ELSE x

RECURSIVE GCD(_, _)
GCD(a, b) == IF b = 0 THEN a ELSE GCD(b, a % b)

Rat(n, d) ==
    LET g == GCD(Abs(n), Abs(d))
        s == IF d < 0 THEN -1 ELSE 1
    IN  <<(s * n) \div g, (s * d) \div g>>

FromInt(n) == <<n, 1>>

RNeg(a) == <<-a[1], a[2]>>

\* sums and comparisons over the least common denominator, products with the
\* common factors cancelled first (keeps the intermediate integers small)
RAdd(a, b) ==
    LET g == GCD(a[2], b[2])
    IN  Rat(a[1] * (b[2] \div g) + b[1] * (a[2] \div g), (a[2] \div g) * b[2])
RSub(a, b) == RAdd(a, RNeg(b))
RMul(a, b) ==
    LET g1 == GCD(Abs(a[1]), b[2])
        g2 == GCD(Abs(b[1]), a[2])
    IN  IF a[1] = 0 \/ b[1] = 0 THEN <<0, 1>>
        ELSE <<(a[1] \div g1) * (b[1] \div g2), (a[2] \div g2) * (b[2] \div g1)>>
RInv(a) == IF a[1] < 0 THEN <<-a[2], -a[1]>> ELSE <<a[2], a[1]>>
RDiv(a, b) == RMul(a, RInv(b))
RLt(a, b) ==
    LET g == GCD(a[2], b[2])
    IN  a[1] * (b[2] \div g) < b[1] * (a[2] \div g)
RLe(a, b) == ~RLt(b, a)
RAbs(a) == <<Abs(a[1]), a[2]>>
RPos(a) == a[1] > 0

RECURSIVE Pow(_, _)
Pow(x, n) == IF n = 0 THEN 1 ELSE x * Pow(x, n - 1)

RPow(a, n) == <<Pow(a[1], n), Pow(a[2], n)>>

\* The positive integer x with x^n = a, or 0 when a is no perfect n-th power.
RECURSIVE IRootFrom(_, _, _)
IRootFrom(a, n, x) ==
    IF Pow(x, n) >= a THEN (IF Pow(x, n) = a THEN x ELSE 0)
    ELSE IRootFrom(a, n, x + 1)

IRoot(a, n) == IF n = 1 THEN a ELSE IRootFrom(a, n, 1)

HasRoot(q, n) == IRoot(q[1], n) # 0 /\ IRoot(q[2], n) # 0

RRoot(q, n) == <<IRoot(q[1], n), IRoot(q[2], n)>>

-----------------------------------------------------------------------------
(* Sequences and sorting.                                                  *)

Range(s) == {s[i] : i \in DOMAIN s}

RMin(S) == CHOOSE x \in S : \A y \in S : RLe(x, y)

\* sorted(set(...)): the elements of a finite set of prices in ascending order
RECURSIVE SortedSeqOfSet(_)
SortedSeqOfSet(S) ==
    IF S = {} THEN <<>>
    ELSE LET m == RMin(S) IN <<m>> \o SortedSeqOfSet(S \ {m})

\* sorted(list): ascending, duplicates kept
sorted(s) == SortSeq(s, RLt)

-----------------------------------------------------------------------------
(* remove_duplicates                                                       *)

\* the loop of lines 620-625 comparing each level with the previous input
\* level instead of the last one kept
RECURSIVE dedup_loop_prev(_, _, _, _)
dedup_loop_prev(rest, prev, result, tolerance) ==
    IF rest = <<>> THEN result
    ELSE LET level == Head(rest)
         IN  IF RLt(tolerance, RDiv(RSub(level, prev), prev))
             THEN dedup_loop_prev(Tail(rest), level, Append(result, level),
                                  tolerance)
             ELSE dedup_loop_prev(Tail(rest), level, result, tolerance)

remove_duplicates_prev(levels, tolerance) ==
    CHOOSE result \in
        {IF sorted_levels = <<>> THEN <<>>
         ELSE dedup_loop_prev(Tail(sorted_levels), sorted_levels[1],
                              <<sorted_levels[1]>>, tolerance) :
            sorted_levels \in {sorted(levels)}} : TRUE

\* for level in sorted_levels[1:] (lines 620-625)
RECURSIVE dedup_loop(_, _, _)
dedup_loop(rest, result, tolerance) ==
    IF rest = <<>> THEN result
    ELSE LET level == Head(rest)
             last == result[Len(result)]
         IN  IF RLt(tolerance, RDiv(RSub(level, last), last))
             THEN dedup_loop(Tail(rest), Append(result, level), tolerance)
             ELSE dedup_loop(Tail(rest), result, tolerance)

remove_duplicates(levels, tolerance) ==
    CHOOSE result \in
        {IF sorted_levels = <<>> THEN <<>>
         ELSE dedup_loop(Tail(sorted_levels), <<sorted_levels[1]>>,
                         tolerance) :
            sorted_levels \in {sorted(levels)}} : TRUE

-----------------------------------------------------------------------------
(* Candle series.  A candle is [open, high, low, close]; df is the sequence *)
(* of candles fetch_binance_data returns (empty when the fetch failed).     *)

Candle(o, h, l, c) ==
    [open |-> FromInt(o), high |-> FromInt(h),
     low |-> FromInt(l), close |-> FromInt(c)]

Lows(df) == [i \in 1..Len(df) |-> df[i].low]
Highs(df) == [i \in 1..Len(df) |-> df[i].high]

RMax(S) == CHOOSE x \in S : \A y \in S : RLe(y, x)

\* the indices a..b in order: range(a, b + 1)
Indices(a, b) == [k \in 1..(IF b >= a THEN b - a + 1 ELSE 0) |-> a + k - 1]

Floor(q) == q[1] \div q[2]

\* round() of a float: to the nearest integer, halves to the even one
RoundHalfEven(q) ==
    LET f == Floor(q)
        twice == 2 * (q[1] - f * q[2])
    IN  IF twice < q[2] THEN f
        ELSE IF twice > q[2] THEN f + 1
        ELSE IF f % 2 = 0 THEN f ELSE f + 1

\* Series.quantile(q): linear interpolation between the order statistics
Quantile(values, q) ==
    LET v == sorted(values)
        pos == RMul(FromInt(Len(v) - 1), q)
        lo == Floor(pos)
        frac == RSub(pos, FromInt(lo))
    IN  IF lo + 2 > Len(v) THEN v[lo + 1]
        ELSE RAdd(v[lo + 1], RMul(RSub(v[lo + 2], v[lo + 1]), frac))

\* the keys of a dict in insertion order, given the sequence of insertions
DistinctInOrder(s) ==
    LET first == SelectSeq(Indices(1, Len(s)),
                           LAMBDA i : \A j \in 1..(i - 1) : s[j] # s[i])
    IN  [k \in 1..Len(first) |-> s[first[k]]]

Count(s, x) == Cardinality({i \in DOMAIN s : s[i] = x})

\* sorted(keys, key=count, reverse=True): stable, larger counts first
\* keys[i] comes before keys[j] in the sorted list
CountBefore(keys, hits, i, j) ==
    \/ Count(hits, keys[i]) > Count(hits, keys[j])
    \/ Count(hits, keys[i]) = Count(hits, keys[j]) /\ i < j

\* (here and below, v \in {e} binds v to the value of e)
SortByCountDesc(keys, hits) ==
    CHOOSE result \in
        {[k \in 1..Len(ks) |->
             ks[CHOOSE j \in 1..Len(ks) :
                    Cardinality({i \in 1..Len(ks) :
                                    CountBefore(ks, hits, i, j)}) = k - 1]] :
            ks \in {keys}} : TRUE

Contains(s, x) == \E i \in DOMAIN s : s[i] = x

\* if x not in s: s.append(x)
AppendIfAbsent(s, x) == IF Contains(s, x) THEN s ELSE Append(s, x)

-----------------------------------------------------------------------------
(* validate_sr_levels                                                      *)

ValidationThreshold == <<3, 5>>     \* validation_threshold = 0.6
NearTolerance == <<1, 200>>         \* within 0.5%
DedupTolerance == <<1, 200>>        \* remove_duplicates(..., tolerance=0.005)

\* the candles i in range(1, len(df)) whose price is within 0.5% of level
TestsOf(prices, level) ==
    {i \in 2..Len(prices) :
        RLt(RDiv(RAbs(RSub(prices[i], level)), level), NearTolerance)}

SupportRespects(df, level) ==
    {i \in TestsOf(Lows(df), level) :
        i < Len(df) /\ RLt(df[i].open, df[i + 1].close)}

ResistanceRespects(df, level) ==
    {i \in TestsOf(Highs(df), level) :
        i < Len(df) /\ RLt(df[i + 1].close, df[i].open)}

\* a validator that keeps every tested support, whatever its bounce ratio
SupportValid_any_tested(df, level) ==
    Cardinality(TestsOf(Lows(df), level)) > 0

SupportValid(df, level) ==
    LET test_count == Cardinality(TestsOf(Lows(df), level))
        respect_count == Cardinality(SupportRespects(df, level))
    IN  \/ /\ test_count > 0
           /\ RLe(ValidationThreshold, Rat(respect_count, test_count))
        \/ /\ test_count < 3
           /\ RLt(level, Quantile(Lows(df), <<1, 10>>))

ResistanceValid(df, level) ==
    LET test_count == Cardinality(TestsOf(Highs(df), level))
        respect_count == Cardinality(ResistanceRespects(df, level))
    IN  \/ /\ test_count > 0
           /\ RLe(ValidationThreshold, Rat(respect_count, test_count))
        \/ /\ test_count < 3
           /\ RLt(Quantile(Highs(df), <<9, 10>>), level)

\* a fallback that keeps every unvalidated candidate
FirstUpTo3_all(s) == s

FirstUpTo3(s) == SubSeq(s, 1, IF Len(s) < 3 THEN Len(s) ELSE 3)

\* <<validated_supports, validated_resistances>>
validate_sr_levels(df, supports, resistances) ==
    CHOOSE result \in
        {<<IF vs = <<>> THEN FirstUpTo3(supports) ELSE vs,
           IF vr = <<>> THEN FirstUpTo3(resistances) ELSE vr>> :
            vs \in {SelectSeq(supports, LAMBDA x : SupportValid(df, x))},
            vr \in {SelectSeq(resistances,
                              LAMBDA x : ResistanceValid(df, x))}} : TRUE

-----------------------------------------------------------------------------
(* find_touchpoint_levels                                                  *)

MinTouches == 2
Bins == 500
RecentWindow == 50

bin_size(df) ==
    RDiv(RSub(RMul(RMax(Range(Highs(df))), <<201, 200>>),
              RMul(RMin(Range(Lows(df))), <<199, 200>>)),
         FromInt(Bins))

\* round(x / bin_size) * bin_size
price_level(df, x) ==
    RMul(FromInt(RoundHalfEven(RDiv(x, bin_size(df)))), bin_size(df))

\* a scan that compares a candle with the one before it only
local_lows_one_sided(df) ==
    SelectSeq(Indices(2, Len(df) - 1),
              LAMBDA i : RLe(df[i].low, df[i - 1].low))

local_highs_one_sided(df) ==
    SelectSeq(Indices(2, Len(df) - 1),
              LAMBDA i : RLe(df[i - 1].high, df[i].high))

\* the interior candles the scan of lines 379-396 counts as a local low,
\* as 1-based positions: range(1, len(df) - 1)
local_lows(df) ==
    SelectSeq(Indices(2, Len(df) - 1),
              LAMBDA i : RLe(df[i].low, df[i - 1].low)
                         /\ RLe(df[i].low, df[i + 1].low))

\* and those it counts as a local high
local_highs(df) ==
    SelectSeq(Indices(2, Len(df) - 1),
              LAMBDA i : RLe(df[i - 1].high, df[i].high)
                         /\ RLe(df[i + 1].high, df[i].high))

\* the increments of support_touches, in the order the two loops make them
support_hits(df) ==
    LET lo == Lows(df)
        local == local_lows(df)
        q05 == Quantile(lo, <<1, 20>>)
        extreme == SelectSeq(Indices(1, Len(df)), LAMBDA i : RLt(lo[i], q05))
    IN  [k \in 1..Len(local) |-> price_level(df, lo[local[k]])]
        \o [k \in 1..Len(extreme) |-> price_level(df, lo[extreme[k]])]

resistance_hits(df) ==
    LET hi == Highs(df)
        local == local_highs(df)
        q95 == Quantile(hi, <<19, 20>>)
        extreme == SelectSeq(Indices(1, Len(df)), LAMBDA i : RLt(q95, hi[i]))
    IN  [k \in 1..Len(local) |-> price_level(df, hi[local[k]])]
        \o [k \in 1..Len(extreme) |-> price_level(df, hi[extreme[k]])]

\* the bins with at least min_touches touches, strongest first (lines 416-427)
strong_levels(hits) ==
    CHOOSE result \in
        {SortByCountDesc(
             SelectSeq(DistinctInOrder(touches),
                       LAMBDA x : Count(touches, x) >= MinTouches),
             touches) :
            touches \in {hits}} : TRUE

recent_df(df) ==
    SubSeq(df, IF Len(df) > RecentWindow THEN Len(df) - RecentWindow + 1 ELSE 1,
           Len(df))

\* the candidate lists handed to validate_sr_levels (lines 429-450)
touchpoint_candidates(df) ==
    LET ceiling == RMax(Range(Highs(recent_df(df))))
        floor == RMin(Range(Lows(recent_df(df))))
        all_time_high == RMax(Range(Highs(df)))
        all_time_low == RMin(Range(Lows(df)))
    IN  CHOOSE result \in
            {<<AppendIfAbsent(with_floor, all_time_low),
               AppendIfAbsent(with_ceiling, all_time_high)>> :
                with_floor \in
                    {AppendIfAbsent(
                         remove_duplicates(strong_levels(support_hits(df)),
                                           DedupTolerance), floor)},
                with_ceiling \in
                    {AppendIfAbsent(
                         remove_duplicates(strong_levels(resistance_hits(df)),
                                           DedupTolerance), ceiling)}} : TRUE

\* <<supports, resistances>>; current_price is not used by the function
find_touchpoint_levels(df, current_price) ==
    CHOOSE result \in
        {validate_sr_levels(df, c[1], c[2]) :
            c \in {touchpoint_candidates(df)}} : TRUE

-----------------------------------------------------------------------------
(* find_price_fractals                                                     *)

WindowSize == 2

is_support_fractal(df, i) ==
    \A j \in 1..WindowSize :
        RLt(df[i].low, df[i - j].low) /\ RLt(df[i].low, df[i + j].low)

is_resistance_fractal(df, i) ==
    \A j \in 1..WindowSize :
        RLt(df[i - j].high, df[i].high) /\ RLt(df[i + j].high, df[i].high)

\* range(window_size, len(df) - window_size), as 1-based positions
FractalIndices(df) == Indices(WindowSize + 1, Len(df) - WindowSize)

\* range(max(window_size, len(df) - window_size*10), len(df) - window_size)
RecentFractalIndices(df) ==
    LET from == IF Len(df) - WindowSize * 10 > WindowSize
                THEN Len(df) - WindowSize * 10 ELSE WindowSize
    IN  Indices(from + 1, Len(df) - WindowSize)

\* the lists before remove_duplicates (lines 468-525)
fractal_lists(df) ==
    LET sup == SelectSeq(FractalIndices(df),
                         LAMBDA i : is_support_fractal(df, i))
        res == SelectSeq(FractalIndices(df),
                         LAMBDA i : is_resistance_fractal(df, i))
        rsup == IF Len(df) > WindowSize * 4
                THEN SelectSeq(RecentFractalIndices(df),
                               LAMBDA i : is_support_fractal(df, i))
                ELSE <<>>
        rres == IF Len(df) > WindowSize * 4
                THEN SelectSeq(RecentFractalIndices(df),
                               LAMBDA i : is_resistance_fractal(df, i))
                ELSE <<>>
    IN  <<[k \in 1..Len(sup) |-> df[sup[k]].low]
              \o [k \in 1..Len(rsup) |-> df[rsup[k]].low],
          [k \in 1..Len(res) |-> df[res[k]].high]
              \o [k \in 1..Len(rres) |-> df[rres[k]].high]>>

\* <<support_fractals, resistance_fractals>>
find_price_fractals(df) ==
    CHOOSE result \in
        {<<remove_duplicates(f[1], DedupTolerance),
           remove_duplicates(f[2], DedupTolerance)>> :
            f \in {fractal_lists(df)}} : TRUE

-----------------------------------------------------------------------------
(* GridBot.analyze_market, from the candles and the last price it fetched  *)

MaxDistanceFactor == <<3, 20>>      \* current_price * 0.15
DefaultSupportFactor == <<97, 100>>
DefaultResistanceFactor == <<103, 100>>

\* sorted(levels, key=lambda x: abs(current_price - x)): stable
\* s[i] comes before s[j] in the sorted list
NearerBefore(s, p, i, j) ==
    \/ RLt(RAbs(RSub(p, s[i])), RAbs(RSub(p, s[j])))
    \/ RAbs(RSub(p, s[i])) = RAbs(RSub(p, s[j])) /\ i < j

SortByDistance(s, p) ==
    CHOOSE result \in
        {[k \in 1..Len(levels) |->
             levels[CHOOSE j \in 1..Len(levels) :
                        Cardinality({i \in 1..Len(levels) :
                                        NearerBefore(levels, p, i, j)})
                            = k - 1]] :
            levels \in {s}} : TRUE

\* final_supports and final_resistances after the filters of lines 86-104
filtered_levels(df, current_price) ==
    LET max_distance == RMul(current_price, MaxDistanceFactor)
    IN  CHOOSE result \in
            {<<SelectSeq(
                   SortByDistance(
                       remove_duplicates(tp[1] \o fr[1], DedupTolerance),
                       current_price),
                   LAMBDA x :
                       /\ RLe(RSub(current_price, x), max_distance)
                       /\ RLt(x, current_price)),
               SelectSeq(
                   SortByDistance(
                       remove_duplicates(tp[2] \o fr[2], DedupTolerance),
                       current_price),
                   LAMBDA x :
                       /\ RLe(RSub(x, current_price), max_distance)
                       /\ RLt(current_price, x))>> :
                tp \in {find_touchpoint_levels(df, current_price)},
                fr \in {find_price_fractals(df)}} : TRUE

\* TRUE when both sides keep a level (line 107)
LevelsFound(df, current_price) ==
    LET f == filtered_levels(df, current_price)
    IN  f[1] # <<>> /\ f[2] # <<>>

default_levels(current_price) ==
    <<<<RMul(current_price, DefaultSupportFactor)>>,
      <<RMul(current_price, DefaultResistanceFactor)>>>>

\* an analysis that falls back to the defaults only when both sides are
\* empty, and keeps the side that found levels otherwise
analyze_market_keep_found(df, current_price) ==
    CHOOSE result \in
        {IF f[1] = <<>> /\ f[2] = <<>> THEN default_levels(current_price)
         ELSE f :
            f \in {filtered_levels(df, current_price)}} : TRUE

\* <<final_supports, final_resistances>> stored and returned (lines 107-119),
\* for a non-empty df and a ticker with a last price
analyze_market(df, current_price) ==
    CHOOSE result \in
        {IF f[1] # <<>> /\ f[2] # <<>> THEN f
         ELSE default_levels(current_price) :
            f \in {filtered_levels(df, current_price)}} : TRUE

-----------------------------------------------------------------------------
(* numpy.linspace and numpy.geomspace as the source calls them.            *)

\* np.linspace called with endpoint=False: num points that stop short of stop
linspace_open(start, stop, num) ==
    [k \in 1..num |->
        RAdd(RMul(FromInt(k - 1),
                  RDiv(RSub(stop, start), FromInt(num))), start)]

\* np.linspace(start, stop, num), endpoint=True:
\*   step = (stop - start) / (num - 1); y[k] = k * step + start; y[-1] = stop
linspace(start, stop, num) ==
    [k \in 1..num |->
        IF num = 1 THEN start
        ELSE IF k = num THEN stop
        ELSE RAdd(RMul(FromInt(k - 1),
                       RDiv(RSub(stop, start), FromInt(num - 1))), start)]

\* every index 0..stop instead of num of them (indices = range(len(...)))
linspace_int_all(stop, num) == [k \in 1..(stop + 1) |-> k - 1]

\* the integer positions taken with endpoint=False: the last one is below stop
linspace_int_open(stop, num) == [k \in 1..num |-> ((k - 1) * stop) \div num]

\* the integer positions rounded to the nearest integer instead of floored
linspace_int_rounded(stop, num) ==
    [k \in 1..num |->
        IF num = 1 THEN 0
        ELSE RoundHalfEven(Rat((k - 1) * stop, num - 1))]

\* np.linspace(0, stop, num, dtype=int): the same points, floored to integers
linspace_int(stop, num) ==
    [k \in 1..num |->
        IF num = 1 THEN 0
        ELSE IF k = num THEN stop
        ELSE ((k - 1) * stop) \div (num - 1)]

\* np.geomspace raises ValueError when an endpoint is 0
GeomspaceRaises(start, stop) == start[1] = 0 \/ stop[1] = 0

\* np.geomspace(start, stop, num) for start, stop > 0:
\*   10 ** linspace(log10(start), log10(stop), num), then result[0] = start and
\*   result[-1] = stop.  With r = (stop/start)^(1/(num-1)) the k-th point is
\*   start * r^k; r is taken exactly, so the operator is used only where
\*   stop/start is a perfect (num-1)-th power of a rational (Representable).
geomspace(start, stop, num) ==
    LET r == IF num > 1 THEN RRoot(RDiv(stop, start), num - 1) ELSE FromInt(1)
    IN  [k \in 1..num |->
            IF k = 1 THEN start
            ELSE IF k = num THEN stop
            ELSE RMul(start, RPow(r, k - 1))]

Representable(lower, upper, N, type) ==
    type = "Geometric" /\ lower[1] > 0 /\ upper[1] > 0
        => HasRoot(RDiv(upper, lower), N)

-----------------------------------------------------------------------------
(* GridBot.generate_arithmetic_grid / generate_geometric_grid              *)

generate_arithmetic_grid(lower, upper, num_levels) ==
    linspace(lower, upper, num_levels)

\* the geometric generator calling np.linspace like the arithmetic one
generate_geometric_grid_linear(lower, upper, num_levels) ==
    linspace(lower, upper, num_levels)

generate_geometric_grid(lower, upper, num_levels) ==
    geomspace(lower, upper, num_levels)

\* the call made on grid_type at lines 156-161 and 171-176
\* the dispatch of lines 151-154 and 170-173 without the test of grid_type
generate_grid_arithmetic_only(lower, upper, num_levels, type) ==
    generate_arithmetic_grid(lower, upper, num_levels)

generate_grid(lower, upper, num_levels, type) ==
    IF type = "Arithmetic"
    THEN generate_arithmetic_grid(lower, upper, num_levels)
    ELSE generate_geometric_grid(lower, upper, num_levels)

GenerateRaises(lower, upper, type) ==
    type # "Arithmetic" /\ GeomspaceRaises(lower, upper)

-----------------------------------------------------------------------------
(* GridBot.calculate_grid_levels                                           *)

InRange(lower, upper, x) == RLe(lower, x) /\ RLe(x, upper)

\* the merged levels without the filter of lines 133-134
key_levels_unfiltered(lower, upper, supports, resistances) ==
    sorted(supports \o resistances)

key_levels(lower, upper, supports, resistances) ==
    LET In(x) == InRange(lower, upper, x)
    IN  sorted(SelectSeq(supports, In) \o SelectSeq(resistances, In))

\* which branch of the method runs
Branch(lower, upper, N, supports, resistances) ==
    IF supports # <<>> /\ resistances # <<>>
    THEN IF Len(key_levels(lower, upper, supports, resistances)) >= N - 1
         THEN "select" ELSE "fill"
    ELSE "synthetic"

\* TRUE when the method raises instead of returning
CalculateRaises(lower, upper, N, type, supports, resistances) ==
    /\ Branch(lower, upper, N, supports, resistances) # "select"
    /\ GenerateRaises(lower, upper, type)

\* the list the method returns and stores in grid_levels
calculate_grid_levels(lower, upper, N, type, supports, resistances) ==
    IF supports # <<>> /\ resistances # <<>>
    THEN LET keys == key_levels(lower, upper, supports, resistances)
         IN  IF Len(keys) >= N - 1
             THEN LET indices == linspace_int(Len(keys) - 1, N - 1)
                      selected_levels ==
                          [i \in 1..Len(indices) |-> keys[indices[i] + 1]]
                  IN  <<lower>> \o selected_levels \o <<upper>>
             ELSE LET levels == <<lower>> \o keys \o <<upper>>
                      remaining == N + 1 - Len(levels)
                  IN  IF remaining > 0
                      THEN LET filled_levels ==
                                   generate_grid(lower, upper, N + 1, type)
                               all_levels == SortedSeqOfSet(
                                   Range(levels) \cup Range(filled_levels))
                               indices ==
                                   linspace_int(Len(all_levels) - 1, N + 1)
                           IN  [i \in 1..Len(indices) |->
                                   all_levels[indices[i] + 1]]
                      ELSE levels
    ELSE generate_grid(lower, upper, N + 1, type)

\* a method that keeps a grid it already holds and composes only when it
\* holds none (the test create_grid_orders makes at line 217)
stored_grid_levels_cached(old_levels, lower, upper, N, type, supports, resistances) ==
    IF old_levels # <<>> THEN old_levels
    ELSE calculate_grid_levels(lower, upper, N, type, supports, resistances)

\* self.grid_levels after the call, given what it held before: levels starts
\* as [] (line 128) and replaces grid_levels (line 178)
stored_grid_levels(old_levels, lower, upper, N, type, supports, resistances) ==
    calculate_grid_levels(lower, upper, N, type, supports, resistances)

-----------------------------------------------------------------------------
(* Composition on its own: a bot whose configuration and stored levels are *)
(* drawn from bounded sets, on which calculate_grid_levels and the two     *)
(* grid generators are called.                                             *)

MaxN == 4
MaxLevels == 2

\* (lower, upper) pairs with 0 < lower < upper
BoundsChoices ==
    {<<88, 112>>, <<97, 103>>, <<100, 112>>, <<91, 109>>, <<100, 121>>,
     <<81, 121>>, <<64, 125>>, <<81, 256>>, <<108, 256>>, <<32, 243>>}

\* Levels analyze_market can have stored around a last price of 100: supports
\* below it, nearest first, resistances above it, nearest first, all within
\* 15% of it and more than 0.5% apart (lines 90-104).
SupportUniverse == {88, 91, 94, 97}
ResistanceUniverse == {103, 106, 109, 112}

Descending(S) == SortSeq(SortedSeqOfSet({FromInt(x) : x \in S}),
                         LAMBDA a, b : RLt(b, a))
Ascending(S) == SortedSeqOfSet({FromInt(x) : x \in S})

SmallSubsets(U) == {S \in SUBSET U : S # {} /\ Cardinality(S) <= MaxLevels}

\* <<support_levels, resistance_levels>> as the bot can hold them: both empty
\* (no analysis yet) or both non-empty (lines 107-117)
StoredLists ==
    {<<<<>>, <<>>>>} \cup
    {<<Descending(S), Ascending(R)>> :
        S \in SmallSubsets(SupportUniverse),
        R \in SmallSubsets(ResistanceUniverse)}

\* What grid_levels can hold when calculate_grid_levels is called: nothing, or
\* the grid of an earlier call made while other levels were stored (none, or
\* the defaults analyze_market stores around a last price of 100).
EarlierGrids(lower, upper, N, type) ==
    {<<>>,
     calculate_grid_levels(lower, upper, N, type, <<>>, <<>>),
     calculate_grid_levels(lower, upper, N, type,
                           <<FromInt(97)>>, <<FromInt(103)>>)}

NoCall == [op |-> "none", value |-> <<>>]

NoAnalysis == [outcome |-> "none", price |-> <<0, 1>>]

\* a bot just constructed (lines 39-48) facing an exchange with no orders
NothingStarted ==
    /\ active_orders = <<>>
    /\ venue = {}
    /\ next_id = 1
    /\ submitted = <<>>
    /\ free_balance = <<0, 1>>
    /\ answers = <<>>
    /\ cancels = <<>>
    /\ analysis = NoAnalysis
    /\ cycles = 0
    /\ faults = 0

InitCompose ==
    /\ \E b \in BoundsChoices :
          /\ lower_price = FromInt(b[1])
          /\ upper_price = FromInt(b[2])
    /\ grid_number \in 1..MaxN
    /\ grid_type \in {"Arithmetic", "Geometric"}
    /\ Representable(lower_price, upper_price, grid_number, grid_type)
    /\ \E l \in StoredLists :
          /\ support_levels = l[1]
          /\ resistance_levels = l[2]
    /\ grid_levels \in EarlierGrids(lower_price, upper_price, grid_number,
                                    grid_type)
    /\ direction = "Neutral"
    /\ investment_percentage = 50
    /\ NothingStarted
    /\ arg = <<>>
    /\ ret = NoCall

\* bot.calculate_grid_levels()
CalculateGridLevels ==
    /\ ~CalculateRaises(lower_price, upper_price, grid_number, grid_type,
                        support_levels, resistance_levels)
    /\ grid_levels' = stored_grid_levels(grid_levels, lower_price, upper_price,
                          grid_number, grid_type,
                          support_levels, resistance_levels)
    /\ arg' = [grid_levels |-> grid_levels]
    /\ ret' = [op |-> "calculate_grid_levels", value |-> grid_levels']
    /\ UNCHANGED <<configVars, cycleVars, support_levels, resistance_levels>>

NextCompose == CalculateGridLevels

SpecCompose == InitCompose /\ [][NextCompose]_vars

-----------------------------------------------------------------------------
(* The two grid generators on their own: generate_arithmetic_grid and      *)
(* generate_geometric_grid called with (lower_price, upper_price,          *)
(* grid_number + 1), the arguments calculate_grid_levels gives them, for   *)
(* lower < upper drawn from bounded sets.                                  *)

\* lower may be zero or negative for the arithmetic grid
GenLowers == {-6, 0, 1, 5, 8, 16, 32, 64, 81, 88, 100}
GenUppers == {7, 16, 27, 64, 81, 103, 112, 121, 125, 243, 256, 729}

InitGenerate ==
    /\ \E l \in GenLowers, u \in GenUppers :
          /\ l < u
          /\ lower_price = FromInt(l)
          /\ upper_price = FromInt(u)
    /\ grid_number \in 1..MaxN
    /\ grid_type \in {"Arithmetic", "Geometric"}
    /\ support_levels = <<>>
    /\ resistance_levels = <<>>
    /\ grid_levels = <<>>
    /\ direction = "Neutral"
    /\ investment_percentage = 50
    /\ NothingStarted
    /\ arg = <<>>
    /\ ret = NoCall

\* bot.generate_arithmetic_grid(lower_price, upper_price, grid_number + 1)
GenerateArithmeticGrid ==
    /\ ret' = [op |-> "generate_arithmetic_grid",
               value |-> generate_arithmetic_grid(
                             lower_price, upper_price, grid_number + 1)]
    /\ UNCHANGED <<configVars, cycleVars, support_levels, resistance_levels,
                   grid_levels, arg>>

\* bot.generate_geometric_grid(lower_price, upper_price, grid_number + 1),
\* for 0 < lower_price
GenerateGeometricGrid ==
    /\ RPos(lower_price)
    /\ Representable(lower_price, upper_price, grid_number, "Geometric")
    /\ ret' = [op |-> "generate_geometric_grid",
               value |-> generate_geometric_grid(
                             lower_price, upper_price, grid_number + 1)]
    /\ UNCHANGED <<configVars, cycleVars, support_levels, resistance_levels,
                   grid_levels, arg>>

NextGenerate ==
    \/ GenerateArithmeticGrid
    \/ GenerateGeometricGrid

SpecGenerate == InitGenerate /\ [][NextGenerate]_vars

-----------------------------------------------------------------------------
(* Properties of the composed grid (SpecCompose).                          *)

CalledCalculate == ret.op = "calculate_grid_levels"

StrictlyIncreasing(g) == \A i \in 1..(Len(g) - 1) : RLt(g[i], g[i + 1])

AllInRange(g) ==
    \A i \in 1..Len(g) : InRange(lower_price, upper_price, g[i])

CurrentBranch ==
    Branch(lower_price, upper_price, grid_number,
           support_levels, resistance_levels)

CurrentKeys ==
    key_levels(lower_price, upper_price, support_levels, resistance_levels)

PureSynthetic ==
    generate_grid(lower_price, upper_price, grid_number + 1, grid_type)

\* C1: for every valid configuration and every content of the stored lists,
\* calculate_grid_levels returns exactly N+1 prices.
C1_ExactlyNPlus1Levels ==
    CalledCalculate => Len(grid_levels) = grid_number + 1

\* the fill branch has run with a detected level merged in
C1_Witness ==
    /\ CalledCalculate
    /\ CurrentBranch = "fill"
    /\ Len(CurrentKeys) >= 1
    /\ Len(grid_levels) = grid_number + 1

\* C2: the grid returned by calculate_grid_levels is strictly increasing,
\* also when a detected level equals lowerBound or upperBound, and every
\* entry lies within [lowerBound, upperBound].
C2_StrictlyIncreasingInRange ==
    CalledCalculate => StrictlyIncreasing(grid_levels) /\ AllInRange(grid_levels)

\* C3: in the branch with fewer than N-1 in-range key levels the first
\* element of the grid is lowerBound and the last is upperBound, for N >= 2.
C3_FillKeepsEndpoints ==
    (CalledCalculate /\ CurrentBranch = "fill" /\ grid_number >= 2)
        => /\ grid_levels[1] = lower_price
           /\ grid_levels[Len(grid_levels)] = upper_price

\* the union held more than N+1 points, so the subsampling dropped some
C3_Witness ==
    /\ CalledCalculate
    /\ CurrentBranch = "fill"
    /\ grid_number >= 3
    /\ Cardinality(Range(<<lower_price>> \o CurrentKeys \o <<upper_price>>)
                   \cup Range(PureSynthetic)) > grid_number + 1
    /\ grid_levels[1] = lower_price
    /\ grid_levels[Len(grid_levels)] = upper_price

InRangeOf(levels) ==
    LET In(x) == InRange(lower_price, upper_price, x)
    IN  SelectSeq(levels, In)

\* C4: if the in-range part of the support list or of the resistance list is
\* empty, calculate_grid_levels returns exactly the pure synthetic grid.
C4_EmptySideGivesSynthetic ==
    (CalledCalculate /\ (InRangeOf(support_levels) = <<>>
                         \/ InRangeOf(resistance_levels) = <<>>))
        => grid_levels = PureSynthetic

\* the synthetic grid as numpy spaces it between the configured bounds
SyntheticSpacing ==
    IF grid_type = "Arithmetic"
    THEN linspace(lower_price, upper_price, grid_number + 1)
    ELSE geomspace(lower_price, upper_price, grid_number + 1)

\* C4 (amended): if a stored list is empty, calculate_grid_levels skips
\* merging and returns exactly the synthetic grid of N+1 points, arithmetic
\* or geometric per grid_type.  A list that is empty only after the filter to
\* [lower_price, upper_price] does not skip merging.
C4_EmptyStoredListGivesSynthetic ==
    (CalledCalculate /\ (support_levels = <<>> \/ resistance_levels = <<>>))
        => grid_levels = SyntheticSpacing

\* a call with nothing stored, for a geometric grid with interior points
C4_Witness ==
    /\ CalledCalculate
    /\ support_levels = <<>>
    /\ grid_type = "Geometric"
    /\ grid_number >= 2
    /\ grid_levels = SyntheticSpacing

-----------------------------------------------------------------------------
(* Properties of the generators (SpecGenerate).                            *)

\* C7: the arithmetic grid for N+1 levels has N+1 strictly increasing points,
\* grid[0] = lower, grid[N] = upper and grid[k] = lower + k*(upper-lower)/N,
\* so all consecutive differences are equal.
C7_ArithmeticGrid ==
    ret.op = "generate_arithmetic_grid" =>
        LET g == ret.value
            N == grid_number
        IN  /\ Len(g) = N + 1
            /\ StrictlyIncreasing(g)
            /\ g[1] = lower_price
            /\ g[N + 1] = upper_price
            /\ \A k \in 0..N :
                  g[k + 1] = RAdd(lower_price,
                                  RDiv(RMul(FromInt(k),
                                            RSub(upper_price, lower_price)),
                                       FromInt(N)))
            /\ \A k \in 1..(N - 1) :
                  RSub(g[k + 1], g[k]) = RSub(g[k + 2], g[k + 1])

\* an arithmetic grid with a fractional step from a negative lower bound
C7_Witness ==
    /\ ret.op = "generate_arithmetic_grid"
    /\ grid_number >= 3
    /\ lower_price[1] < 0
    /\ ret.value[2][2] # 1
    /\ ret.value[grid_number + 1] = upper_price

\* C8: the geometric grid for N+1 levels satisfies
\* level[k] = lower * (upper/lower)^(k/N): first element lower, last element
\* upper, and the same ratio between every two consecutive elements.
C8_GeometricGrid ==
    ret.op = "generate_geometric_grid" =>
        LET g == ret.value
            N == grid_number
            rho == RDiv(g[2], g[1])
        IN  /\ Len(g) = N + 1
            /\ g[1] = lower_price
            /\ g[N + 1] = upper_price
            /\ RPow(rho, N) = RDiv(upper_price, lower_price)
            /\ \A k \in 0..N : g[k + 1] = RMul(lower_price, RPow(rho, k))
            /\ \A k \in 1..N : RDiv(g[k + 1], g[k]) = rho

\* a geometric grid with interior points and a fractional ratio
C8_Witness ==
    /\ ret.op = "generate_geometric_grid"
    /\ grid_number >= 3
    /\ RDiv(ret.value[2], ret.value[1])[2] # 1
    /\ ret.value[grid_number + 1] = upper_price

-----------------------------------------------------------------------------
(* remove_duplicates on its own, on price lists drawn from a bounded set.  *)

MaxDedupLen == 4

\* 100, 100.2, 100.4, 100.8, 105
DedupPrices == {<<100, 1>>, <<501, 5>>, <<502, 5>>, <<504, 5>>, <<105, 1>>}

\* 0.005 (every call in the source) and 0.01 (the default)
Tolerances == {<<1, 200>>, <<1, 100>>}

SeqsUpTo(S, n) == UNION {[1..k -> S] : k \in 0..n}

InitDedup ==
    /\ lower_price = FromInt(0)
    /\ upper_price = FromInt(0)
    /\ grid_number = 1
    /\ grid_type = "Arithmetic"
    /\ support_levels = <<>>
    /\ resistance_levels = <<>>
    /\ grid_levels = <<>>
    /\ \E l \in SeqsUpTo(DedupPrices, MaxDedupLen), t \in Tolerances :
          arg = [levels |-> l, tolerance |-> t]
    /\ direction = "Neutral"
    /\ investment_percentage = 50
    /\ NothingStarted
    /\ ret = NoCall

\* remove_duplicates(levels, tolerance)
RemoveDuplicates ==
    /\ ret' = [op |-> "remove_duplicates",
               value |-> remove_duplicates(arg.levels, arg.tolerance)]
    /\ UNCHANGED <<configVars, cycleVars, support_levels, resistance_levels,
                   grid_levels, arg>>

NextDedup == RemoveDuplicates

SpecDedup == InitDedup /\ [][NextDedup]_vars

RelGap(a, b) == RDiv(RSub(b, a), a)

\* C10: remove_duplicates sorts ascending, keeps the smallest price, and
\* keeps each later price exactly when its relative distance to the last kept
\* price exceeds tolerance; [100, 100.2, 100.4, 105] with tolerance 0.005
\* yields [100, 105]; consecutive output prices differ by more than tolerance
\* relative to the lower one.
C10_DedupAgainstLastKept ==
    ret.op = "remove_duplicates" =>
        LET in == arg.levels
            out == ret.value
            tol == arg.tolerance
            LastKeptBelow(x) ==
                CHOOSE y \in Range(out) :
                    /\ RLt(y, x)
                    /\ \A z \in Range(out) : RLt(z, x) => RLe(z, y)
        IN  /\ in = <<>> => out = <<>>
            /\ in # <<>> => out # <<>> /\ out[1] = RMin(Range(in))
            /\ Range(out) \subseteq Range(in)
            /\ StrictlyIncreasing(out)
            /\ \A i \in 1..(Len(out) - 1) :
                  RLt(tol, RelGap(out[i], out[i + 1]))
            /\ \A x \in Range(in) :
                  x # RMin(Range(in)) =>
                      (x \in Range(out)
                          <=> RLt(tol, RelGap(LastKeptBelow(x), x)))
            /\ (in = <<<<100, 1>>, <<501, 5>>, <<502, 5>>, <<105, 1>>>>
                /\ tol = <<1, 200>>)
                    => out = <<<<100, 1>>, <<105, 1>>>>

\* the chain of the example has been deduplicated to [100, 105]
C10_Witness ==
    /\ ret.op = "remove_duplicates"
    /\ arg.levels = <<<<100, 1>>, <<501, 5>>, <<502, 5>>, <<105, 1>>>>
    /\ arg.tolerance = <<1, 200>>
    /\ ret.value = <<<<100, 1>>, <<105, 1>>>>

-----------------------------------------------------------------------------
(* The exchange client as the bot sees it (src/exchange.py): fetch_binance_ *)
(* data returns candles or an empty frame, fetch_ticker a ticker or None,  *)
(* get_balance a balance or {}, create_order an order or None, and         *)
(* cancel_order an acknowledgement or None.                                *)

NoTicker == <<>>
Ticker(last) == <<FromInt(last)>>

\* lows touch 9 and highs touch 11 again and again
Ranging ==
    <<Candle(10, 11, 9, 10), Candle(10, 11, 9, 10), Candle(10, 11, 9, 10),
      Candle(10, 11, 9, 10), Candle(10, 11, 9, 10)>>

\* no level on the side of the price where analyze_market looks for it
Choppy ==
    <<Candle(10, 12, 10, 11), Candle(9, 11, 9, 10), Candle(10, 12, 10, 11),
      Candle(11, 13, 11, 12), Candle(10, 11, 8, 9), Candle(9, 12, 10, 11),
      Candle(11, 12, 10, 10)>>

\* a steady rise that the last price has left far behind
Rising ==
    <<Candle(8, 9, 7, 9), Candle(9, 10, 8, 10), Candle(10, 11, 9, 11),
      Candle(11, 12, 10, 12), Candle(12, 13, 11, 13)>>

\* what fetch_binance_data and fetch_ticker answer in one start()
Markets ==
    {[df |-> <<>>, ticker |-> NoTicker],
     [df |-> Ranging, ticker |-> NoTicker],
     [df |-> Ranging, ticker |-> Ticker(10)],
     [df |-> Choppy, ticker |-> Ticker(10)],
     [df |-> Rising, ticker |-> Ticker(20)]}

\* the early returns of analyze_market (lines 66-68 and 72-74)
ReturnsEarly(market) == market.df = <<>> \/ market.ticker = NoTicker

\* analyze_market on each market that gets past the early returns: whether
\* both sides kept a level (line 107), and the lists stored and returned
AnalysisTable ==
    [market \in {m \in Markets : ~ReturnsEarly(m)} |->
        [found |-> LevelsFound(market.df, market.ticker[1]),
         lists |-> analyze_market(market.df, market.ticker[1])]]

\* an analysis whose early return stores the two empty lists it returns
stored_after_analysis_cleared(supports, resistances, market) ==
    IF ReturnsEarly(market) THEN <<<<>>, <<>>>>
    ELSE AnalysisTable[market].lists

\* <<support_levels, resistance_levels>> after analyze_market: what the bot
\* held before on an early return (lines 68 and 74 assign nothing), the
\* lists of lines 116-117 otherwise
stored_after_analysis(supports, resistances, market) ==
    IF ReturnsEarly(market) THEN <<supports, resistances>>
    ELSE AnalysisTable[market].lists

AnalysisOutcome(market) ==
    IF market.df = <<>> THEN "no_data"
    ELSE IF market.ticker = NoTicker THEN "no_price"
    ELSE IF AnalysisTable[market].found THEN "levels"
    ELSE "defaults"

\* balance[currency]['free'] when get_balance answers; 0 when it fails
FreeBalance == FromInt(1200)

available_balance(balance_ok) == IF balance_ok THEN FreeBalance ELSE FromInt(0)

-----------------------------------------------------------------------------
(* GridBot.create_grid_orders                                              *)

\* the investment divided among the N+1 levels instead of the N intervals
order_size_per_level(available, percentage, N) ==
    RDiv(RMul(available, Rat(percentage, 100)), FromInt(N + 1))

\* the whole investment on every instruction
order_size_whole(available, percentage, N) ==
    RMul(available, Rat(percentage, 100))

\* order_size (lines 225-228)
order_size(available, percentage, N) ==
    RDiv(RMul(available, Rat(percentage, 100)), FromInt(N))

\* the (side, price) pairs in the order the loops of lines 234-299 reach them
\* a planner that gives every price one instruction only: in Neutral mode a
\* Buy at each level but the last and one Sell at the last
order_plan_one_per_level(dir, levels) ==
    IF dir = "Neutral"
    THEN [i \in 1..Len(levels) |->
            [side |-> IF i < Len(levels) THEN "buy" ELSE "sell",
             price |-> levels[i]]]
    ELSE IF dir = "Long"
    THEN [i \in 1..Len(levels) |-> [side |-> "buy", price |-> levels[i]]]
    ELSE IF dir = "Short"
    THEN [i \in 1..Len(levels) |-> [side |-> "sell", price |-> levels[i]]]
    ELSE <<>>

order_plan(dir, levels) ==
    IF dir = "Neutral"
    THEN [k \in 1..(2 * (Len(levels) - 1)) |->
            IF k % 2 = 1
            THEN [side |-> "buy", price |-> levels[(k + 1) \div 2]]
            ELSE [side |-> "sell", price |-> levels[(k \div 2) + 1]]]
    ELSE IF dir = "Long"
    THEN [i \in 1..Len(levels) |-> [side |-> "buy", price |-> levels[i]]]
    ELSE IF dir = "Short"
    THEN [i \in 1..Len(levels) |-> [side |-> "sell", price |-> levels[i]]]
    ELSE <<>>

NothingPlaced(resting, id) ==
    [orders |-> <<>>, sent |-> <<>>, venue |-> resting, next_id |-> id,
     failed |-> 0, raised |-> FALSE]

\* a loop in which a refused instruction raises
RECURSIVE place_orders_strict(_, _, _, _, _)
place_orders_strict(plan, responses, size, k, acc) ==
    IF k > Len(plan) THEN acc
    ELSE IF plan[k].price[1] = 0 THEN [acc EXCEPT !.raised = TRUE]
    ELSE CHOOSE result \in
        {IF responses[k] = "rejected"
         THEN [acc EXCEPT !.sent = sent, !.failed = 1, !.raised = TRUE]
         ELSE IF responses[k] = "no_id"
         THEN [acc EXCEPT !.sent = sent, !.failed = 1, !.raised = TRUE,
                          !.venue = @ \cup {acc.next_id}, !.next_id = @ + 1]
         ELSE place_orders_strict(plan, responses, size, k + 1,
                  [acc EXCEPT !.sent = sent,
                              !.orders = Append(@,
                                  [id |-> acc.next_id,
                                   side |-> plan[k].side,
                                   price |-> plan[k].price,
                                   amount |-> RDiv(size, plan[k].price)]),
                              !.venue = @ \cup {acc.next_id},
                              !.next_id = @ + 1]) :
            sent \in {Append(acc.sent,
                             [side |-> plan[k].side, price |-> plan[k].price,
                              amount |-> RDiv(size, plan[k].price)])}} : TRUE

\* a loop that swallows what the real one raises: it ends without an error
RECURSIVE place_orders_quiet(_, _, _, _, _)
place_orders_quiet(plan, responses, size, k, acc) ==
    IF k > Len(plan) THEN acc
    ELSE IF plan[k].price[1] = 0 THEN acc
    ELSE CHOOSE result \in
        {IF responses[k] = "rejected"
         THEN place_orders_quiet(plan, responses, size, k + 1,
                  [acc EXCEPT !.sent = sent, !.failed = 1])
         ELSE IF responses[k] = "no_id"
         THEN [acc EXCEPT !.sent = sent, !.failed = 1,
                          !.venue = @ \cup {acc.next_id}, !.next_id = @ + 1]
         ELSE place_orders_quiet(plan, responses, size, k + 1,
                  [acc EXCEPT !.sent = sent,
                              !.orders = Append(@,
                                  [id |-> acc.next_id,
                                   side |-> plan[k].side,
                                   price |-> plan[k].price,
                                   amount |-> RDiv(size, plan[k].price)]),
                              !.venue = @ \cup {acc.next_id},
                              !.next_id = @ + 1]) :
            sent \in {Append(acc.sent,
                             [side |-> plan[k].side, price |-> plan[k].price,
                              amount |-> RDiv(size, plan[k].price)])}} : TRUE

\* a loop that a refused instruction ends: nothing after it is sent
RECURSIVE place_orders_abort(_, _, _, _, _)
place_orders_abort(plan, responses, size, k, acc) ==
    IF k > Len(plan) THEN acc
    ELSE IF plan[k].price[1] = 0 THEN [acc EXCEPT !.raised = TRUE]
    ELSE CHOOSE result \in
        {IF responses[k] = "rejected"
         THEN [acc EXCEPT !.sent = sent, !.failed = 1]
         ELSE IF responses[k] = "no_id"
         THEN [acc EXCEPT !.sent = sent, !.failed = 1, !.raised = TRUE,
                          !.venue = @ \cup {acc.next_id}, !.next_id = @ + 1]
         ELSE place_orders_abort(plan, responses, size, k + 1,
                  [acc EXCEPT !.sent = sent,
                              !.orders = Append(@,
                                  [id |-> acc.next_id,
                                   side |-> plan[k].side,
                                   price |-> plan[k].price,
                                   amount |-> RDiv(size, plan[k].price)]),
                              !.venue = @ \cup {acc.next_id},
                              !.next_id = @ + 1]) :
            sent \in {Append(acc.sent,
                             [side |-> plan[k].side, price |-> plan[k].price,
                              amount |-> RDiv(size, plan[k].price)])}} : TRUE

\* The loop over the plan from instruction k on.  responses[k] is what the
\* exchange does with instruction k: "accepted", "rejected" (create_order
\* returns None) or "no_id" (it returns an order without an 'id' key).
\* A zero price raises ZeroDivisionError before anything is sent, and an
\* order without id raises KeyError after the exchange took it.
RECURSIVE place_orders(_, _, _, _, _)
place_orders(plan, responses, size, k, acc) ==
    IF k > Len(plan) THEN acc
    ELSE IF plan[k].price[1] = 0 THEN [acc EXCEPT !.raised = TRUE]
    ELSE CHOOSE result \in
        {IF responses[k] = "rejected"
         THEN place_orders(plan, responses, size, k + 1,
                  [acc EXCEPT !.sent = sent, !.failed = 1])
         ELSE IF responses[k] = "no_id"
         THEN [acc EXCEPT !.sent = sent, !.failed = 1, !.raised = TRUE,
                          !.venue = @ \cup {acc.next_id}, !.next_id = @ + 1]
         ELSE place_orders(plan, responses, size, k + 1,
                  [acc EXCEPT !.sent = sent,
                              !.orders = Append(@,
                                  [id |-> acc.next_id,
                                   side |-> plan[k].side,
                                   price |-> plan[k].price,
                                   amount |-> RDiv(size, plan[k].price)]),
                              !.venue = @ \cup {acc.next_id},
                              !.next_id = @ + 1]) :
            sent \in {Append(acc.sent,
                             [side |-> plan[k].side, price |-> plan[k].price,
                              amount |-> RDiv(size, plan[k].price)])}} : TRUE

\* create_grid_orders on a bot that holds a grid
create_grid_orders(levels, dir, percentage, N, balance_ok, responses, resting, id) ==
    CHOOSE orders \in
        {place_orders(plan, responses, size, 1, NothingPlaced(resting, id)) :
            plan \in {order_plan(dir, levels)},
            size \in {order_size(available_balance(balance_ok),
                                 percentage, N)}} : TRUE

\* What the exchange may do with n instructions: take them all, refuse them
\* all, or fail on one of them.
ResponsePatterns(n) ==
    {[k \in 1..n |-> "accepted"], [k \in 1..n |-> "rejected"]}
    \cup {[k \in 1..n |-> IF k = j THEN f ELSE "accepted"] :
             j \in 1..n, f \in {"rejected", "no_id"}}

-----------------------------------------------------------------------------
(* The start/stop cycle of one bot (Spec).                                 *)

MaxCycles == 2
MaxFaults == 1

Config(lower, upper, N, type, dir) ==
    [lower |-> FromInt(lower), upper |-> FromInt(upper), number |-> N,
     type |-> type, direction |-> dir]

\* Configurations the form of main.py can send: the last five have an empty
\* bound field (read as 0 at lines 29-30), bounds in the wrong order, or
\* equal bounds.
BotConfigs ==
    {Config(9, 11, 2, "Arithmetic", "Neutral"),
     Config(9, 16, 2, "Geometric", "Long"),
     Config(8, 10, 3, "Arithmetic", "Short"),
     Config(9, 11, 1, "Arithmetic", "Long"),
     Config(0, 11, 2, "Arithmetic", "Long"),
     Config(0, 11, 2, "Geometric", "Neutral"),
     Config(9, 0, 2, "Arithmetic", "Long"),
     Config(11, 9, 2, "Arithmetic", "Short"),
     Config(10, 10, 2, "Arithmetic", "Neutral")}

Init ==
    /\ \E c \in BotConfigs :
          /\ lower_price = c.lower
          /\ upper_price = c.upper
          /\ grid_number = c.number
          /\ grid_type = c.type
          /\ direction = c.direction
    /\ investment_percentage = 50
    /\ support_levels = <<>>
    /\ resistance_levels = <<>>
    /\ grid_levels = <<>>
    /\ NothingStarted
    /\ arg = <<>>
    /\ ret = NoCall

\* bot.start(): analyze_market, calculate_grid_levels, create_grid_orders,
\* and False when any of them raises (lines 310-329)
Start ==
    /\ cycles < MaxCycles
    /\ \E market \in Markets, balance_ok \in BOOLEAN :
       \E lists \in {stored_after_analysis(support_levels, resistance_levels,
                                            market)} :
         /\ support_levels' = lists[1]
         /\ resistance_levels' = lists[2]
         /\ analysis' = [outcome |-> AnalysisOutcome(market),
                         price |-> IF market.ticker = NoTicker
                                   THEN <<0, 1>> ELSE market.ticker[1]]
         /\ IF CalculateRaises(lower_price, upper_price, grid_number,
                               grid_type, lists[1], lists[2])
            THEN /\ balance_ok
                 /\ submitted' = <<>>
                 /\ answers' = <<>>
                 /\ ret' = [op |-> "start", value |-> FALSE]
                 /\ UNCHANGED <<grid_levels, active_orders, venue, next_id,
                                free_balance, faults>>
            ELSE \E levels \in {stored_grid_levels(grid_levels, lower_price,
                                    upper_price, grid_number, grid_type,
                                    lists[1], lists[2])} :
                 \E responses \in ResponsePatterns(
                                      Len(order_plan(direction, levels))) :
                 \E placed \in {create_grid_orders(levels, direction,
                                    investment_percentage, grid_number,
                                    balance_ok, responses, venue, next_id)} :
                    /\ grid_levels' = levels
                    /\ faults' = faults + placed.failed
                                     + (IF balance_ok THEN 0 ELSE 1)
                    /\ faults' <= MaxFaults
                    /\ submitted' = placed.sent
                    /\ answers' = [k \in 1..Len(placed.sent) |-> responses[k]]
                    /\ free_balance' = available_balance(balance_ok)
                    /\ venue' = placed.venue
                    /\ next_id' = placed.next_id
                    /\ active_orders' = IF placed.raised THEN active_orders
                                        ELSE placed.orders
                    /\ ret' = [op |-> "start", value |-> ~placed.raised]
    /\ cycles' = cycles + 1
    /\ UNCHANGED <<configVars, cancels, arg>>

\* a loop that stops after the first cancel request
order_ids_first(orders) == [i \in 1..(IF orders = <<>> THEN 0 ELSE 1) |-> orders[i].id]

\* the keys of active_orders, in the order the loop of line 340 visits them
order_ids(orders) == [i \in 1..Len(orders) |-> orders[i].id]

\* The cancel requests of one stop() that may fail although the order rests
\* on the exchange: none, one of them, or all.
CancelFailures(ids) ==
    {{}} \cup {{id} : id \in ids} \cup {ids}

\* bot.stop(): one cancel request per entry of active_orders; a failed
\* request returns None and the loop goes on (lines 338-345)
Stop ==
    /\ \E failing \in CancelFailures(Range(order_ids(active_orders))
                                        \cap venue) :
          /\ faults' = faults + (IF failing = {} THEN 0 ELSE 1)
          /\ faults' <= MaxFaults
          /\ venue' = venue \ (Range(order_ids(active_orders)) \ failing)
    /\ cancels' = order_ids(active_orders)
    /\ ret' = [op |-> "stop", value |-> TRUE]
    /\ UNCHANGED <<configVars, support_levels, resistance_levels, grid_levels,
                   active_orders, next_id, submitted, free_balance, answers,
                   analysis, cycles, arg>>

Next == Start \/ Stop

Spec == Init /\ [][Next]_vars

-----------------------------------------------------------------------------
(* Properties of the start/stop cycle (Spec).                              *)

Started == ret.op = "start"

\* 0 < lower_price < upper_price
ValidBounds == RPos(lower_price) /\ RLt(lower_price, upper_price)

\* the last analysis found no usable level on one side at least (line 107)
NoLevelsDetected == analysis.outcome = "defaults"

StoredLevels == Range(support_levels) \cup Range(resistance_levels)

\* C5: when analysis detects no usable support or resistance level and the
\* bounds are configured, the grid start() composes is the pure synthetic
\* spacing between the bounds.
C5_NoLevelsGivesSynthetic ==
    (Started /\ NoLevelsDetected /\ ValidBounds)
        => grid_levels = SyntheticSpacing

\* C5 (amended): when analysis detects no usable level it stores the default
\* levels 0.97 and 1.03 times the last price, and composition treats them as
\* detected levels; the grid start() composes is the pure synthetic spacing
\* when neither default lies within the configured bounds.
C5_DefaultsOutOfRangeGiveSynthetic ==
    (/\ Started /\ NoLevelsDetected /\ ValidBounds
     /\ \A x \in StoredLevels : ~InRange(lower_price, upper_price, x))
        => grid_levels = SyntheticSpacing

\* start() ran on defaults that lie outside the bounds of a grid with
\* interior points
C5_Witness ==
    /\ Started /\ NoLevelsDetected /\ ValidBounds
    /\ support_levels = default_levels(analysis.price)[1]
    /\ resistance_levels = default_levels(analysis.price)[2]
    /\ \A x \in StoredLevels : ~InRange(lower_price, upper_price, x)
    /\ grid_number >= 2
    /\ grid_levels = SyntheticSpacing

\* C6: a configuration with lower_price >= upper_price or a non-positive
\* bound is rejected before composition: start() returns False, no grid is
\* computed and no order is submitted.
C6_InvalidBoundsRejected ==
    (Started /\ ~ValidBounds)
        => /\ ret.value = FALSE
           /\ grid_levels = <<>>
           /\ submitted = <<>>
           /\ venue = {}

-----------------------------------------------------------------------------
(* validate_sr_levels called on its own (SpecValidate).                    *)

MaxCandles == 4
MaxCandidates == 4

\* a rising and a falling candle between 9 and 11, and a flat one that
\* reaches from 7 to 13
CandleChoices ==
    {Candle(9, 11, 9, 11), Candle(11, 11, 9, 9), Candle(10, 13, 7, 10)}

SupportCandidates == {FromInt(7), FromInt(8), FromInt(9), FromInt(10)}
ResistanceCandidates == {FromInt(10), FromInt(11), FromInt(12), FromInt(13)}

\* the lists of at most n distinct members of S, in every order
ListsOf(S, n) ==
    {l \in SeqsUpTo(S, n) : \A i, j \in 1..Len(l) : i # j => l[i] # l[j]}

\* the two sides are validated by separate loops: one side gets every list of
\* candidates, the other at most one candidate
CandidatePairs ==
    (ListsOf(SupportCandidates, MaxCandidates) \X {<<>>, <<FromInt(11)>>})
    \cup ({<<>>, <<FromInt(9)>>}
              \X ListsOf(ResistanceCandidates, MaxCandidates))

InitValidate ==
    /\ lower_price = FromInt(0)
    /\ upper_price = FromInt(0)
    /\ grid_number = 1
    /\ grid_type = "Arithmetic"
    /\ support_levels = <<>>
    /\ resistance_levels = <<>>
    /\ grid_levels = <<>>
    /\ direction = "Neutral"
    /\ investment_percentage = 50
    /\ NothingStarted
    /\ \E df \in SeqsUpTo(CandleChoices, MaxCandles) \ {<<>>},
          c \in CandidatePairs :
          arg = [df |-> df, supports |-> c[1], resistances |-> c[2]]
    /\ ret = NoCall

\* validate_sr_levels(df, supports, resistances)
ValidateSrLevels ==
    /\ ret' = [op |-> "validate_sr_levels",
               value |-> validate_sr_levels(arg.df, arg.supports,
                                            arg.resistances)]
    /\ UNCHANGED <<configVars, cycleVars, support_levels, resistance_levels,
                   grid_levels, arg>>

NextValidate == ValidateSrLevels

SpecValidate == InitValidate /\ [][NextValidate]_vars

CalledValidate == ret.op = "validate_sr_levels"

SupportTests(level) == Cardinality(TestsOf(Lows(arg.df), level))
SupportBounces(level) == Cardinality(SupportRespects(arg.df, level))
ResistanceTests(level) == Cardinality(TestsOf(Highs(arg.df), level))
ResistanceReversals(level) == Cardinality(ResistanceRespects(arg.df, level))

\* tested 3 times or more with a bounce ratio below 0.6
PoorlyRespectedSupport(level) ==
    SupportTests(level) >= 3 /\ 5 * SupportBounces(level) < 3 * SupportTests(level)

\* the two ways a candidate passes (lines 564-568 and 585-589)
SupportPasses(level) ==
    \/ SupportTests(level) > 0
       /\ 5 * SupportBounces(level) >= 3 * SupportTests(level)
    \/ SupportTests(level) < 3
       /\ RLt(level, Quantile(Lows(arg.df), <<1, 10>>))

ResistancePasses(level) ==
    \/ ResistanceTests(level) > 0
       /\ 5 * ResistanceReversals(level) >= 3 * ResistanceTests(level)
    \/ ResistanceTests(level) < 3
       /\ RLt(Quantile(Highs(arg.df), <<9, 10>>), level)

\* C11: a support candidate with 3 or more tests and a bounce ratio below 0.6
\* does not appear in the returned support list, whatever other candidates
\* were supplied.
C11_PoorSupportDropped ==
    CalledValidate =>
        \A x \in Range(arg.supports) :
            PoorlyRespectedSupport(x) => x \notin Range(ret.value[1])

\* C11 (amended): such a candidate does not appear in the returned support
\* list when at least one support candidate passes validation; when none
\* passes, the fallback returns the first candidates unvalidated and can
\* return it.
C11_PoorSupportDroppedUnlessFallback ==
    (CalledValidate /\ \E y \in Range(arg.supports) : SupportPasses(y)) =>
        \A x \in Range(arg.supports) :
            PoorlyRespectedSupport(x) => x \notin Range(ret.value[1])

\* a poorly respected support was dropped next to one that passed
C11_Witness ==
    /\ CalledValidate
    /\ \E x, y \in Range(arg.supports) :
          /\ PoorlyRespectedSupport(x)
          /\ SupportPasses(y)
          /\ x \notin Range(ret.value[1])
          /\ y \in Range(ret.value[1])

FirstMin3(s) == [i \in 1..(IF Len(s) < 3 THEN Len(s) ELSE 3) |-> s[i]]

\* C12: when no candidate of a side passes validation the side returned is
\* its first min(3, count) candidates in input order, and a side is returned
\* empty only when it had no candidate.
C12_FallbackNeverEmpty ==
    CalledValidate =>
        /\ (\A x \in Range(arg.supports) : ~SupportPasses(x))
               => ret.value[1] = FirstMin3(arg.supports)
        /\ (\A x \in Range(arg.resistances) : ~ResistancePasses(x))
               => ret.value[2] = FirstMin3(arg.resistances)
        /\ ret.value[1] = <<>> => arg.supports = <<>>
        /\ ret.value[2] = <<>> => arg.resistances = <<>>

\* four candidates, none passing: the first three come back
C12_Witness ==
    /\ CalledValidate
    /\ Len(arg.supports) = 4
    /\ \A x \in Range(arg.supports) : ~SupportPasses(x)
    /\ ret.value[1] = SubSeq(arg.supports, 1, 3)

-----------------------------------------------------------------------------
(* Properties of the orders one start() submits (Spec).                    *)

\* start() ran to its end: nothing raised
Completed == Started /\ ret.value = TRUE

\* perGridSize = freeBalance * investmentPercent / 100 / N
PerGridSize ==
    RDiv(RDiv(RMul(free_balance, FromInt(investment_percentage)), FromInt(100)),
         FromInt(grid_number))

Buy(level) ==
    [side |-> "buy", price |-> level, amount |-> RDiv(PerGridSize, level)]

Sell(level) ==
    [side |-> "sell", price |-> level, amount |-> RDiv(PerGridSize, level)]

\* C13: in Neutral mode create_grid_orders submits exactly 2N instructions:
\* for each i in 0..N-1 a Buy at levels[i] then a Sell at levels[i+1], each
\* of quantity perGridSize/level; an interior level gets a Buy and a Sell.
C13_NeutralPlan ==
    (Completed /\ direction = "Neutral") =>
        /\ Len(submitted) = 2 * grid_number
        /\ \A i \in 0..(grid_number - 1) :
              /\ submitted[2 * i + 1] = Buy(grid_levels[i + 1])
              /\ submitted[2 * i + 2] = Sell(grid_levels[i + 2])

\* a Neutral start whose interior level got a Sell and then a Buy
C13_Witness ==
    /\ Completed /\ direction = "Neutral" /\ ValidBounds
    /\ grid_number >= 2
    /\ free_balance # <<0, 1>>
    /\ submitted[2].side = "sell" /\ submitted[3].side = "buy"
    /\ submitted[2].price = submitted[3].price
    /\ submitted[2].price = grid_levels[2]

\* C14: in Long mode create_grid_orders submits one Buy and no Sell at every
\* one of the N+1 levels, in Short mode one Sell and no Buy, each of quantity
\* perGridSize/level with perGridSize = freeBalance * percent/100 / N.
C14_LongShortPlan ==
    /\ (Completed /\ direction = "Long") =>
          submitted = [i \in 1..(grid_number + 1) |-> Buy(grid_levels[i])]
    /\ (Completed /\ direction = "Short") =>
          submitted = [i \in 1..(grid_number + 1) |-> Sell(grid_levels[i])]

\* a Long start with money to spend
C14_Witness ==
    /\ Completed /\ direction = "Long" /\ ValidBounds
    /\ free_balance # <<0, 1>>
    /\ Len(submitted) = grid_number + 1
    /\ \A i \in 1..Len(submitted) :
          /\ submitted[i].side = "buy"
          /\ RMul(submitted[i].amount, submitted[i].price) = PerGridSize

\* the instructions of the whole plan, in the order of the loops
WholePlan ==
    IF direction = "Neutral"
    THEN [k \in 1..(2 * grid_number) |->
            IF k % 2 = 1 THEN Buy(grid_levels[(k + 1) \div 2])
            ELSE Sell(grid_levels[(k \div 2) + 1])]
    ELSE IF direction = "Long"
    THEN [i \in 1..(grid_number + 1) |-> Buy(grid_levels[i])]
    ELSE [i \in 1..(grid_number + 1) |-> Sell(grid_levels[i])]

\* positions of the instructions the exchange accepted
Accepted == {k \in 1..Len(answers) : answers[k] = "accepted"}

\* position of the j-th accepted instruction
AcceptedAt(j) ==
    CHOOSE k \in Accepted : Cardinality({m \in Accepted : m <= k}) = j

Instruction(order) ==
    [side |-> order.side, price |-> order.price, amount |-> order.amount]

\* C15: a rejected submission is skipped without retry and without stopping
\* or undoing the others: whatever the exchange rejects, every instruction
\* of the plan is submitted exactly once in plan order, and active_orders
\* holds exactly the accepted ones.
C15_RejectionsSkipped ==
    Completed =>
        /\ submitted = WholePlan
        /\ Len(answers) = Len(submitted)
        /\ Len(active_orders) = Cardinality(Accepted)
        /\ \A j \in 1..Len(active_orders) :
              Instruction(active_orders[j]) = submitted[AcceptedAt(j)]
        /\ \A i, j \in 1..Len(active_orders) :
              i # j => active_orders[i].id # active_orders[j].id

\* a rejection in the middle of the plan, instructions accepted after it
C15_Witness ==
    /\ Completed
    /\ \E k \in 1..Len(answers) :
          /\ answers[k] = "rejected"
          /\ k > 1 /\ k < Len(answers)
          /\ answers[k - 1] = "accepted" /\ answers[k + 1] = "accepted"
    /\ Len(active_orders) = Len(submitted) - 1

\* composition raised: np.geomspace on a zero bound (line 203)
CompositionRaised ==
    CalculateRaises(lower_price, upper_price, grid_number, grid_type,
                    support_levels, resistance_levels)

\* planning raised: a division by a zero price (lines 237, 250, 271, 288) or
\* an answer without the 'id' key (lines 247, 261, 281, 298)
PlanningRaised ==
    \/ \E i \in 1..Len(grid_levels) : grid_levels[i][1] = 0
    \/ \E k \in 1..Len(answers) : answers[k] = "no_id"

\* C16: start() returns True whenever analysis, composition and planning
\* complete without raising, whatever the exchange rejected and even when
\* analysis retrieved no data; it returns False only when something raised.
C16_TrueUnlessRaised ==
    Started => (ret.value = TRUE <=> ~(CompositionRaised \/ PlanningRaised))

\* analysis retrieved no data and the exchange rejected every instruction
C16_Witness ==
    /\ Started /\ ret.value = TRUE
    /\ analysis.outcome = "no_data"
    /\ Len(answers) > 0
    /\ \A k \in 1..Len(answers) : answers[k] = "rejected"
    /\ active_orders = <<>>

Stopped == ret.op = "stop"

\* ids of the orders that rest on the exchange: accepted and not cancelled
Resting == venue

\* C17: after every completed start() or stop(), in any sequence,
\* active_orders is exactly the set of the orders that currently rest on the
\* exchange; after a successful stop() it holds no cancelled order.
C17_ActiveOrdersAreResting ==
    (Completed \/ (Stopped /\ ret.value = TRUE)) =>
        Range(order_ids(active_orders)) = Resting

-----------------------------------------------------------------------------
(* The two detectors called on their own (SpecDetect).                     *)

MaxSeries == 5

\* three candles, each with a higher low and a higher high than the one before
SeriesCandles ==
    {Candle(8, 10, 7, 9), Candle(9, 11, 8, 10), Candle(10, 12, 9, 11)}

\* analyze_market returns at lines 66-68 on an empty frame, so the detectors
\* are called on a series of one candle or more
InitDetect ==
    /\ lower_price = FromInt(0)
    /\ upper_price = FromInt(0)
    /\ grid_number = 1
    /\ grid_type = "Arithmetic"
    /\ support_levels = <<>>
    /\ resistance_levels = <<>>
    /\ grid_levels = <<>>
    /\ direction = "Neutral"
    /\ investment_percentage = 50
    /\ NothingStarted
    /\ \E df \in SeqsUpTo(SeriesCandles, MaxSeries) \ {<<>>} :
          arg = [df |-> df, current_price |-> FromInt(10)]
    /\ ret = NoCall

\* find_touchpoint_levels(df, current_price); candidates are the two lists
\* it hands to validate_sr_levels at line 453
FindTouchpointLevels ==
    /\ ret' = [op |-> "find_touchpoint_levels",
               value |-> find_touchpoint_levels(arg.df, arg.current_price),
               candidates |-> touchpoint_candidates(arg.df)]
    /\ UNCHANGED <<configVars, cycleVars, support_levels, resistance_levels,
                   grid_levels, arg>>

\* find_price_fractals(df)
FindPriceFractals ==
    /\ ret' = [op |-> "find_price_fractals",
               value |-> find_price_fractals(arg.df)]
    /\ UNCHANGED <<configVars, cycleVars, support_levels, resistance_levels,
                   grid_levels, arg>>

NextDetect == FindTouchpointLevels \/ FindPriceFractals

SpecDetect == InitDetect /\ [][NextDetect]_vars

CalledTouchpoints == ret.op = "find_touchpoint_levels"
CalledFractals == ret.op = "find_price_fractals"

NoCandidates == <<<<>>, <<>>>>

\* C18: on fewer candles than a detector needs (fewer than 3 for the
\* touchpoint method, fewer than 2*window_size+1 for the fractal method)
\* detection yields no candidates.
C18_ShortSeriesNoCandidates ==
    /\ (CalledTouchpoints /\ Len(arg.df) < 3) => ret.value = NoCandidates
    /\ (CalledFractals /\ Len(arg.df) < 2 * WindowSize + 1) =>
          ret.value = NoCandidates

\* the fractal half of C18 alone
FractalsNeedFullWindow ==
    (CalledFractals /\ Len(arg.df) < 2 * WindowSize + 1) =>
        ret.value = NoCandidates

\* lows and highs both strictly increasing
RisingSeries(df) ==
    StrictlyIncreasing(Lows(df)) /\ StrictlyIncreasing(Highs(df))

\* the bins the extreme-quantile loop increments (lines 398-413)
ExtremeLowBins(df) ==
    {price_level(df, df[i].low) :
        i \in {j \in 1..Len(df) : RLt(df[j].low, Quantile(Lows(df), <<1, 20>>))}}

ExtremeHighBins(df) ==
    {price_level(df, df[i].high) :
        i \in {j \in 1..Len(df) : RLt(Quantile(Highs(df), <<19, 20>>), df[j].high)}}

\* floor and ceiling of the recent candles, all-time low and high (429-445)
AddedLows(df) == {RMin(Range(Lows(recent_df(df)))), RMin(Range(Lows(df)))}
AddedHighs(df) == {RMax(Range(Highs(recent_df(df)))), RMax(Range(Highs(df)))}

\* C19: on a series whose lows and highs are both strictly increasing the
\* scan over the interior candles increments no bin, and every candidate the
\* touchpoint detector returns comes from the extreme-quantile increments or
\* from the recent-window and all-time high and low additions.
C19_MonotoneSeriesNoInteriorTouch ==
    (CalledTouchpoints /\ RisingSeries(arg.df)) =>
        /\ local_lows(arg.df) = <<>>
        /\ local_highs(arg.df) = <<>>
        /\ Range(ret.value[1]) \subseteq
               ExtremeLowBins(arg.df) \cup AddedLows(arg.df)
        /\ Range(ret.value[2]) \subseteq
               ExtremeHighBins(arg.df) \cup AddedHighs(arg.df)

\* a rising series with interior candles, and the candidates it gave
C19_Witness ==
    /\ CalledTouchpoints /\ RisingSeries(arg.df)
    /\ Len(arg.df) >= 3
    /\ ret.value[1] = <<arg.df[1].low>>
    /\ ret.value[2] = <<arg.df[Len(arg.df)].high>>

-----------------------------------------------------------------------------
(* calculate_grid_levels with more stored levels per side (SpecSelect).    *)

MaxSelectN == 5
MaxSelectLevels == 3

SelectBounds == {<<88, 112>>, <<91, 109>>}

SelectLists ==
    {<<Descending(S), Ascending(R)>> :
        S \in {T \in SUBSET SupportUniverse :
                  T # {} /\ Cardinality(T) <= MaxSelectLevels},
        R \in {T \in SUBSET ResistanceUniverse :
                  T # {} /\ Cardinality(T) <= MaxSelectLevels}}

InitSelect ==
    /\ \E b \in SelectBounds :
          /\ lower_price = FromInt(b[1])
          /\ upper_price = FromInt(b[2])
    /\ grid_number \in 1..MaxSelectN
    /\ grid_type \in {"Arithmetic", "Geometric"}
    /\ Representable(lower_price, upper_price, grid_number, grid_type)
    /\ \E l \in SelectLists :
          /\ support_levels = l[1]
          /\ resistance_levels = l[2]
    /\ grid_levels \in EarlierGrids(lower_price, upper_price, grid_number,
                                    grid_type)
    /\ direction = "Neutral"
    /\ investment_percentage = 50
    /\ NothingStarted
    /\ arg = <<>>
    /\ ret = NoCall

SpecSelect == InitSelect /\ [][NextCompose]_vars

\* the key levels of the call just made
KeyLevels ==
    key_levels(lower_price, upper_price, support_levels, resistance_levels)

EnoughKeyLevels == Len(KeyLevels) >= grid_number - 1

\* the i-th of num positions interpolated from 0 to stop, i = 0..num-1
Position(stop, num, i) == IF num = 1 THEN <<0, 1>> ELSE Rat(i * stop, num - 1)

\* the positions rounded to the nearest integer
RoundedIndices ==
    [k \in 1..(grid_number - 1) |->
        RoundHalfEven(Position(Len(KeyLevels) - 1, grid_number - 1, k - 1))]

\* the positions cut to their integer part
TruncatedIndices ==
    [k \in 1..(grid_number - 1) |->
        Floor(Position(Len(KeyLevels) - 1, grid_number - 1, k - 1))]

SelectedAt(indices) ==
    <<lower_price>> \o [k \in 1..Len(indices) |-> KeyLevels[indices[k] + 1]]
        \o <<upper_price>>

Distinct(indices) ==
    \A i, j \in 1..Len(indices) : i # j => indices[i] # indices[j]

\* C20: with at least N-1 in-range key levels the composer takes the N-1 key
\* levels at the positions interpolated from 0 to len-1, each rounded to the
\* nearest integer, and returns [lower] + selected + [upper]; the selected
\* indices are pairwise distinct.
C20_SelectsRoundedIndices ==
    (CalledCalculate /\ EnoughKeyLevels) =>
        /\ grid_levels = SelectedAt(RoundedIndices)
        /\ Distinct(RoundedIndices)

\* C20 (amended): the positions are cut to their integer part, not rounded;
\* the grid is [lower] + the key levels at those indices + [upper], and the
\* indices are pairwise distinct.
C20_SelectsTruncatedIndices ==
    (CalledCalculate /\ EnoughKeyLevels) =>
        /\ grid_levels = SelectedAt(TruncatedIndices)
        /\ Distinct(TruncatedIndices)

\* five key levels, four selected: rounding would take another level
C20_Witness ==
    /\ CalledCalculate /\ EnoughKeyLevels
    /\ Len(KeyLevels) = 5 /\ grid_number = 5
    /\ TruncatedIndices = <<0, 1, 2, 4>>
    /\ RoundedIndices = <<0, 1, 3, 4>>
    /\ grid_levels = SelectedAt(TruncatedIndices)

-----------------------------------------------------------------------------
(* The rule of the validator, with tests counted over the whole series     *)
(* (SpecValidate).                                                         *)

\* every candle, the first and the last included, whose price is within
\* 0.5% of level
AllTestsOf(prices, level) ==
    {i \in 1..Len(prices) :
        RLt(RDiv(RAbs(RSub(prices[i], level)), level), NearTolerance)}

\* tests > 0 and respects/tests >= 0.6, or tests < 3 and level below the
\* 10th percentile of the lows
KeepsSupport(level) ==
    LET tests == AllTestsOf(Lows(arg.df), level)
        respects == {i \in tests : i < Len(arg.df)
                        /\ RLt(arg.df[i].open, arg.df[i + 1].close)}
    IN  \/ /\ Cardinality(tests) > 0
           /\ 5 * Cardinality(respects) >= 3 * Cardinality(tests)
        \/ /\ Cardinality(tests) < 3
           /\ RLt(level, Quantile(Lows(arg.df), <<1, 10>>))

KeepsResistance(level) ==
    LET tests == AllTestsOf(Highs(arg.df), level)
        respects == {i \in tests : i < Len(arg.df)
                        /\ RLt(arg.df[i + 1].close, arg.df[i].open)}
    IN  \/ /\ Cardinality(tests) > 0
           /\ 5 * Cardinality(respects) >= 3 * Cardinality(tests)
        \/ /\ Cardinality(tests) < 3
           /\ RLt(Quantile(Highs(arg.df), <<9, 10>>), level)

\* C21: the validator counts as tests every candle of the series, the first
\* and the last included, whose low is within 0.5% of L, as respects the
\* tests whose next candle closes above the tested candle's open, and keeps
\* L exactly when (tests > 0 and respects/tests >= 0.6) or (tests < 3 and L
\* below the 10th percentile of the lows); resistance is symmetric.  Stated
\* for the calls in which that rule keeps a candidate of the side, so that
\* the fallback for an empty validated list has no part in it.
C21_RuleCountsEveryCandle ==
    CalledValidate =>
        /\ (\E i \in 1..Len(arg.supports) : KeepsSupport(arg.supports[i])) =>
              ret.value[1] = SelectSeq(arg.supports, KeepsSupport)
        /\ (\E i \in 1..Len(arg.resistances) :
                KeepsResistance(arg.resistances[i])) =>
              ret.value[2] = SelectSeq(arg.resistances, KeepsResistance)

-----------------------------------------------------------------------------
(* The two detectors on longer series of two candle shapes (SpecRank).     *)

MaxRankSeries == 9
MaxCalm == 15

RankCandles == {Candle(9, 11, 9, 10), Candle(8, 10, 7, 9)}

\* a dip: a support fractal at its third candle
Dip ==
    <<Candle(9, 11, 9, 10), Candle(9, 11, 9, 10), Candle(8, 10, 7, 9),
      Candle(9, 11, 9, 10), Candle(9, 11, 9, 10)>>

\* Series longer than window_size*10 candles: a dip, 13 to MaxCalm candles
\* without a fractal, and a dip again.  The first dip is older than the
\* candles the second scan of find_price_fractals covers (lines 493-525).
LongSeries ==
    {Dip \o [i \in 1..k |-> Candle(9, 11, 9, 10)] \o Dip : k \in 13..MaxCalm}

RankSeries == (SeqsUpTo(RankCandles, MaxRankSeries) \ {<<>>}) \cup LongSeries

InitRank ==
    /\ lower_price = FromInt(0)
    /\ upper_price = FromInt(0)
    /\ grid_number = 1
    /\ grid_type = "Arithmetic"
    /\ support_levels = <<>>
    /\ resistance_levels = <<>>
    /\ grid_levels = <<>>
    /\ direction = "Neutral"
    /\ investment_percentage = 50
    /\ NothingStarted
    /\ \E df \in RankSeries :
          arg = [df |-> df, current_price |-> FromInt(10)]
    /\ ret = NoCall

NextRank == FindTouchpointLevels \/ FindPriceFractals

SpecRank == InitRank /\ [][NextRank]_vars

\* the bins with at least min_touches touches
RetainedBins(hits) == {x \in Range(hits) : Count(hits, x) >= MinTouches}

\* the list starts with exactly the retained bins, a bin with more touches
\* before one with fewer
RankedFirst(list, hits) ==
    /\ Len(list) >= Cardinality(RetainedBins(hits))
    /\ {list[i] : i \in 1..Cardinality(RetainedBins(hits))} = RetainedBins(hits)
    /\ \A i, j \in 1..Cardinality(RetainedBins(hits)) :
          i < j => Count(hits, list[i]) >= Count(hits, list[j])

\* C22: the touchpoint detector retains exactly the bins with at least
\* minTouches touches, and its candidate list presents them ranked by touch
\* count, descending, before the ceiling/floor and all-time additions.
C22_RankedByTouchCount ==
    CalledTouchpoints =>
        /\ RankedFirst(ret.candidates[1], support_hits(arg.df))
        /\ RankedFirst(ret.candidates[2], resistance_hits(arg.df))

\* the second scan runs
Rescanned == Len(arg.df) > WindowSize * 4

\* positions of the support and resistance fractals the second scan finds
RecentSupportFractals ==
    {i \in Range(RecentFractalIndices(arg.df)) : is_support_fractal(arg.df, i)}

RecentResistanceFractals ==
    {i \in Range(RecentFractalIndices(arg.df)) :
        is_resistance_fractal(arg.df, i)}

\* C23: the fractals of the most recent candles are appended a second time,
\* and the duplication shows in the list find_price_fractals returns: the
\* price of a recent fractal is represented there more than once.
C23_RecentFractalsCountTwice ==
    (CalledFractals /\ Rescanned) =>
        /\ \A i \in RecentSupportFractals :
              Count(ret.value[1], arg.df[i].low) >= 2
        /\ \A i \in RecentResistanceFractals :
              Count(ret.value[2], arg.df[i].high) >= 2

\* the first half of C23: before remove_duplicates the price of a recent
\* fractal is in the list twice or more
RecentFractalsAppendedTwice ==
    (CalledFractals /\ Rescanned) =>
        /\ \A i \in RecentSupportFractals :
              Count(fractal_lists(arg.df)[1], arg.df[i].low) >= 2
        /\ \A i \in RecentResistanceFractals :
              Count(fractal_lists(arg.df)[2], arg.df[i].high) >= 2

\* the fractals of the first scan alone (lines 472-490), deduplicated
WithoutRescan ==
    LET sup == SelectSeq(FractalIndices(arg.df),
                         LAMBDA i : is_support_fractal(arg.df, i))
        res == SelectSeq(FractalIndices(arg.df),
                         LAMBDA i : is_resistance_fractal(arg.df, i))
    IN  <<remove_duplicates([k \in 1..Len(sup) |-> arg.df[sup[k]].low],
                            DedupTolerance),
          remove_duplicates([k \in 1..Len(res) |-> arg.df[res[k]].high],
                            DedupTolerance)>>

\* the second scan changes nothing in the lists the function returns, and
\* no price is in them twice
RescanHasNoEffect ==
    CalledFractals =>
        /\ ret.value = WithoutRescan
        /\ \A s \in 1..2 : \A i \in 1..Len(ret.value[s]) :
              Count(ret.value[s], ret.value[s][i]) = 1

-----------------------------------------------------------------------------
(* analyze_market called on its own (SpecAnalyze).                         *)

MaxAnalyzeSeries == 6

\* three candles with the same high and lows of 7, 8 and 9
AnalyzeCandles ==
    {Candle(8, 10, 7, 9), Candle(9, 10, 8, 9), Candle(9, 10, 9, 9)}

\* what fetch_ticker can answer: nothing, or a last price of 9 or 10
TickerChoices == {NoTicker, Ticker(9), Ticker(10)}

\* what the bot can hold when analyze_market is called: nothing, or the
\* levels an earlier analysis stored (here the defaults around a price of 10)
StoredBefore == {<<<<>>, <<>>>>, default_levels(FromInt(10))}

InitAnalyze ==
    /\ lower_price = FromInt(0)
    /\ upper_price = FromInt(0)
    /\ grid_number = 1
    /\ grid_type = "Arithmetic"
    /\ \E l \in StoredBefore :
          /\ support_levels = l[1]
          /\ resistance_levels = l[2]
    /\ grid_levels = <<>>
    /\ direction = "Neutral"
    /\ investment_percentage = 50
    /\ NothingStarted
    /\ \E df \in SeqsUpTo(AnalyzeCandles, MaxAnalyzeSeries),
          ticker \in TickerChoices :
          arg = [df |-> df, ticker |-> ticker]
    /\ ret = NoCall

\* bot.analyze_market(): df and ticker are what the exchange answered;
\* validated is what the call of validate_sr_levels at line 453 returned
AnalyzeMarket ==
    /\ IF ReturnsEarly(arg)
       THEN /\ ret' = [op |-> "analyze_market", value |-> <<<<>>, <<>>>>,
                       early |-> TRUE, validated |-> <<<<>>, <<>>>>,
                       found |-> FALSE]
            /\ UNCHANGED <<support_levels, resistance_levels>>
       ELSE \E lists \in {analyze_market(arg.df, arg.ticker[1])} :
            /\ support_levels' = lists[1]
            /\ resistance_levels' = lists[2]
            /\ ret' = [op |-> "analyze_market", value |-> lists,
                       early |-> FALSE,
                       validated |-> find_touchpoint_levels(arg.df,
                                                            arg.ticker[1]),
                       found |-> LevelsFound(arg.df, arg.ticker[1])]
    /\ UNCHANGED <<configVars, cycleVars, grid_levels, arg>>

NextAnalyze == AnalyzeMarket

SpecAnalyze == InitAnalyze /\ [][NextAnalyze]_vars

CalledAnalyze == ret.op = "analyze_market"

\* C24: every candidate level, of the touchpoint method or of the fractal
\* method, passes through the validator before it reaches the stored lists:
\* no level is in support_levels / resistance_levels without having been
\* accepted by validate_sr_levels.
C24_StoredLevelsWereValidated ==
    (CalledAnalyze /\ ret.found) =>
        /\ Range(support_levels) \subseteq Range(ret.validated[1])
        /\ Range(resistance_levels) \subseteq Range(ret.validated[2])

\* the last price of the call
LastPrice == arg.ticker[1]

\* C26: when analyze_market gets a non-empty series and a last price p > 0,
\* on return both stored lists are non-empty, every stored support s has
\* p*0.85 <= s < p and every stored resistance r has p < r <= p*1.15; when
\* the filters leave a side empty, both sides are the defaults [p*0.97] and
\* [p*1.03], whatever was found on the other side.
C26_StoredLevelsAroundPrice ==
    (CalledAnalyze /\ ~ret.early) =>
        /\ support_levels # <<>> /\ resistance_levels # <<>>
        /\ ret.value = <<support_levels, resistance_levels>>
        /\ \A i \in 1..Len(support_levels) :
              /\ RLe(RMul(LastPrice, <<17, 20>>), support_levels[i])
              /\ RLt(support_levels[i], LastPrice)
        /\ \A i \in 1..Len(resistance_levels) :
              /\ RLt(LastPrice, resistance_levels[i])
              /\ RLe(resistance_levels[i], RMul(LastPrice, <<23, 20>>))
        /\ ~ret.found =>
              /\ support_levels = <<RMul(LastPrice, <<97, 100>>)>>
              /\ resistance_levels = <<RMul(LastPrice, <<103, 100>>)>>

\* no support passed the filters, a resistance did, and it was discarded
C26_Witness ==
    /\ CalledAnalyze /\ ~ret.early /\ ~ret.found
    /\ filtered_levels(arg.df, LastPrice)[1] = <<>>
    /\ filtered_levels(arg.df, LastPrice)[2] # <<>>
    /\ support_levels = <<RMul(LastPrice, <<97, 100>>)>>
    /\ resistance_levels = <<RMul(LastPrice, <<103, 100>>)>>

-----------------------------------------------------------------------------
(* Properties of successive cycles (Spec).                                 *)

\* the grid composed from the levels this cycle's analysis left stored
ComposedThisCycle ==
    calculate_grid_levels(lower_price, upper_price, grid_number, grid_type,
                          support_levels, resistance_levels)

\* the prices of the plan, in plan order, up to the last instruction sent
PricedFrom(levels) ==
    \A k \in 1..Len(submitted) :
        submitted[k].price =
            IF direction = "Neutral"
            THEN (IF k % 2 = 1 THEN levels[(k + 1) \div 2]
                  ELSE levels[(k \div 2) + 1])
            ELSE levels[k]

\* C25: each start() replaces grid_levels by a newly composed list before an
\* order of the cycle is planned, and the orders submitted in a cycle are
\* priced from the grid composed in that cycle, never from an earlier one.
C25_OrdersPricedFromNewGrid ==
    Started =>
        IF CompositionRaised THEN submitted = <<>>
        ELSE /\ grid_levels = ComposedThisCycle
             /\ PricedFrom(ComposedThisCycle)

\* a second cycle whose grid differs from the first one's: an order of the
\* first cycle is still recorded at a price the new grid does not have
C25_Witness ==
    /\ Started /\ cycles = 2 /\ ~CompositionRaised
    /\ submitted # <<>>
    /\ \E i \in 1..Len(active_orders) :
          \A j \in 1..Len(grid_levels) : active_orders[i].price # grid_levels[j]

\* the analysis of the cycle returned early: no candles, or no last price
ReturnedEarly == analysis.outcome \in {"no_data", "no_price"}

\* C27: when analyze_market returns early because no candles or no last
\* price could be fetched, the stored support_levels and resistance_levels
\* stay as they were, and the composition that follows in the same start()
\* uses them: the levels of the previous successful analysis, or none.
C27_EarlyReturnKeepsStoredLevels ==
    /\ [][(Started' /\ cycles' = cycles + 1 /\ ReturnedEarly') =>
            /\ support_levels' = support_levels
            /\ resistance_levels' = resistance_levels]_vars
    /\ []((Started /\ ReturnedEarly /\ ~CompositionRaised) =>
            grid_levels =
                calculate_grid_levels(lower_price, upper_price,
                    grid_number, grid_type,
                    support_levels, resistance_levels))

\* a second cycle without candles that composed its grid from the levels
\* the first cycle stored
C27_Witness ==
    /\ Started /\ cycles = 2 /\ analysis.outcome = "no_data"
    /\ support_levels # <<>> /\ resistance_levels # <<>>
    /\ grid_levels = ComposedThisCycle
    /\ grid_levels #
           generate_grid(lower_price, upper_price, grid_number + 1, grid_type)

-----------------------------------------------------------------------------
(* Properties of stop() (Spec).                                            *)

\* the instructions among the first k sent that the exchange took
TakenUpTo(k) == Cardinality({m \in 1..k : answers[m] # "rejected"})

\* the exchange's id of the k-th instruction of the last create_grid_orders
IdOf(k) == next_id - TakenUpTo(Len(answers)) + TakenUpTo(k) - 1

\* ids of the orders accepted during the most recent create_grid_orders
LastAcceptedIds == [j \in 1..Cardinality(Accepted) |-> IdOf(AcceptedAt(j))]

RecordedIds == [i \in 1..Len(active_orders) |-> active_orders[i].id]

-----------------------------------------------------------------------------
(* What one cycle spends, and what a failed cycle leaves (Spec).           *)

\* investment_amount (line 225)
InvestmentAmount ==
    RDiv(RMul(free_balance, FromInt(investment_percentage)), FromInt(100))

Notional(k) == RMul(submitted[k].price, submitted[k].amount)

\* the notional of the first k instructions sent
RECURSIVE NotionalUpTo(_)
NotionalUpTo(k) ==
    IF k = 0 THEN <<0, 1>> ELSE RAdd(NotionalUpTo(k - 1), Notional(k))

TotalNotional == NotionalUpTo(Len(submitted))

\* C29: every instruction submitted has price * quantity equal to
\* perGridSize = investmentAmount / N, so a cycle submits
\* investmentAmount * (N+1)/N in Long and Short modes and 2 * investmentAmount
\* in Neutral mode: more than investmentAmount whenever that is positive.
C29_NotionalExceedsInvestment ==
    /\ Started =>
          \A k \in 1..Len(submitted) :
              Notional(k) = RDiv(InvestmentAmount, FromInt(grid_number))
    /\ Completed =>
          /\ TotalNotional =
                 IF direction = "Neutral"
                 THEN RMul(FromInt(2), InvestmentAmount)
                 ELSE RMul(InvestmentAmount,
                           Rat(grid_number + 1, grid_number))
          /\ RLt(<<0, 1>>, InvestmentAmount) =>
                 RLt(InvestmentAmount, TotalNotional)

\* a Short cycle of four instructions that submits 4/3 of the investment
C29_Witness ==
    /\ Completed /\ direction = "Short" /\ grid_number = 3
    /\ RLt(<<0, 1>>, InvestmentAmount)
    /\ Len(submitted) = 4
    /\ RMul(FromInt(3), TotalNotional) = RMul(FromInt(4), InvestmentAmount)

\* C30: when create_grid_orders raises after orders of the cycle were
\* accepted (a grid level of 0, an accepted order without an id), start()
\* returns False and active_orders keeps the value it had before the call,
\* so the orders accepted in the failed cycle are recorded nowhere, while
\* grid_levels already holds the new grid.
C30_FailedCycleRecordsNothing ==
    /\ []((Started /\ ~CompositionRaised /\ PlanningRaised) =>
            /\ ret.value = FALSE
            /\ grid_levels = ComposedThisCycle)
    /\ [][(Started' /\ cycles' = cycles + 1 /\ PlanningRaised') =>
          /\ active_orders' = active_orders
          /\ \A id \in Range(LastAcceptedIds') :
                /\ id \in venue'
                /\ id \notin Range(RecordedIds')]_vars

\* a second cycle that raised after two orders were accepted; the first
\* cycle's orders are still the recorded ones
C30_Witness ==
    /\ Started /\ cycles = 2 /\ ret.value = FALSE
    /\ ~CompositionRaised /\ PlanningRaised
    /\ Len(LastAcceptedIds) >= 2
    /\ active_orders # <<>>
    /\ \A i \in 1..Len(LastAcceptedIds) : LastAcceptedIds[i] \in venue
    /\ \A i \in 1..Len(LastAcceptedIds) : \A j \in 1..Len(active_orders) :
          active_orders[j].id # LastAcceptedIds[i]

====
